---- MODULE Spec2Model ----
(***************************************************************************)
(* The interview session state machine of backend/console/views.py:        *)
(* interview_session_create (StartSession) and interview_session_flow      *)
(* (AdvanceSession), over the persisted Session and Applicant rows.        *)
(*                                                                         *)
(* Texts are tuples of string fragments, so that an f-string keeps the     *)
(* values it interpolates: None is << >>, the empty string is <<"">>.      *)
(* A nullable number is << >> (None) or <<v>>; scores are kept in tenths   *)
(* of a percent, so that int(score) is a real truncation.                  *)
(***************************************************************************)
EXTENDS Integers, Sequences, FiniteSets, TLC

VARIABLES applicants, sessions, resp, inflight

vars == <<applicants, sessions, resp, inflight>>

\* Bound on session.n_questions: no call is modelled on a session that has reached it.
MaxQuestions == 3

----------------------------------------------------------------------------
(* Values *)

NoneText == << >>
EmptyText == <<"">>
NoneNum == << >>

\* Python truthiness of a str-or-None value: None and "" are falsy.
Truthy(t) == t # NoneText /\ t # EmptyText

\* The orders of the store: agent_id 1 and 2 exist, 3 does not.
AgentIds == {1, 2, 3}
Orders == {1, 2}
Emails == {"a@x"}

\* The email values a row can be keyed by: "" is what an anonymous request
\* without an email resolves to.
RowEmails == Emails \cup {""}

\* order.agent.identity.agent_name
agent_name(o) == IF o = 1 THEN "Ava" ELSE "Bo"

\* order.agent.behaviour.agent_greeting: order 2 is configured with an empty greeting.
agent_greeting(o) == IF o = 1 THEN <<"Welcome to the interview">> ELSE EmptyText

\* The caller: request.user.is_authenticated with request.user.email, or an
\* anonymous caller with request.data.get('email') ("" when the key is missing).
Callers ==
    {[auth |-> TRUE, email |-> e] : e \in Emails}
        \cup {[auth |-> FALSE, email |-> e] : e \in Emails \cup {""}}

\* A Session row as the model's defaults make it; exists = FALSE is "no row".
NoSession ==
    [exists |-> FALSE, ready |-> FALSE, n_questions |-> 0,
     last_question |-> NoneText, last_answer |-> NoneText,
     final |-> FALSE, score |-> NoneNum, confidence |-> NoneNum]

NewSession == [NoSession EXCEPT !.exists = TRUE]

NoApplicant == [exists |-> FALSE, skills |-> NoneText]

NewApplicant == [NoApplicant EXCEPT !.exists = TRUE]

\* The response of the last call, with what the call did (stage, branch, engine calls).
NoResp ==
    [op |-> "none", agent_id |-> 0, email |-> "", status |-> 0, detail |-> "",
     created |-> "-", stage |-> 0, cls |-> NoneText, branch |-> "-", engine |-> 0,
     summary |-> NoneText, ai_text |-> NoneText,
     final |-> FALSE, score |-> NoneNum, confidence |-> NoneNum,
     handed |-> NoSession, prompt |-> NoneText]

Idle == [busy |-> FALSE, agent_id |-> 0, email |-> "", sess |-> NoSession, app |-> NoApplicant]

Workers == {1, 2}

----------------------------------------------------------------------------
(* Identity resolution, shared by both views *)

\* user_email, or "" when the caller is anonymous and sent no email.
user_email(caller) == caller.email

\* EmailMissing without the check of the anonymous caller's email.
EmailNeverMissing(caller) == FALSE

EmailMissing(caller) == ~caller.auth /\ caller.email = ""

----------------------------------------------------------------------------
(* interview_session_create *)

HelloAgain(o) ==
    <<"Hello again, I am ", agent_name(o),
      ", your ai interviewer and we started a interview previously. Please describe your experience and skills related to the position you're applying for">>

\* StartedSession without the agent's name.
StartedSessionNameless(o) ==
    <<"Hi, I am your ai interviewer",
      " and we started a session. Tell me when you're ready to start with the questions?">>

StartedSession(o) ==
    <<"Hi, I am ", agent_name(o),
      " and we started a session. Tell me when you're ready to start with the questions?">>

StartedInterview(o) ==
    <<"Hi, I am ", agent_name(o),
      " and we started a interview process. Tell me when you're ready to to continue with the questions?">>

\* Greeting with the configured greeting reused for an existing session that has
\* no last_question yet.
GreetingConfiguredWhenUnset(o, session, session_created) ==
    IF session_created \/ (session.n_questions = 0 /\ ~Truthy(session.last_question))
    THEN [bound |-> TRUE, text |-> agent_greeting(o)]
    ELSE IF session.n_questions = 0 /\ ~Truthy(session.last_answer)
    THEN [bound |-> TRUE, text |-> StartedSession(o)]
    ELSE IF session.n_questions # 0
    THEN [bound |-> TRUE, text |-> StartedInterview(o)]
    ELSE [bound |-> FALSE, text |-> NoneText]

\* The local `greeting` after the if/elif chain: bound = FALSE when no branch assigned it.
Greeting(o, session, session_created) ==
    IF session_created
    THEN [bound |-> TRUE, text |-> agent_greeting(o)]
    ELSE IF session.n_questions = 0 /\ ~Truthy(session.last_question)
    THEN [bound |-> TRUE, text |-> HelloAgain(o)]
    ELSE IF session.n_questions = 0 /\ ~Truthy(session.last_answer)
    THEN [bound |-> TRUE, text |-> StartedSession(o)]
    ELSE IF session.n_questions # 0
    THEN [bound |-> TRUE, text |-> StartedInterview(o)]
    ELSE [bound |-> FALSE, text |-> NoneText]

\* CreateRun without the reset of ready.
CreateRunKeepsReady(o, session0, session_created) ==
    LET g == Greeting(o, session0, session_created)
    IN  IF g.bound
        THEN [raised |-> FALSE, sess |-> [session0 EXCEPT !.last_question = g.text],
              ai_text |-> g.text]
        ELSE [raised |-> TRUE, sess |-> session0, ai_text |-> NoneText]

\* CreateRun that starts the interview over: the question count is reset with
\* the greeting.
CreateRunRestarts(o, session0, session_created) ==
    LET s1 == [session0 EXCEPT !.ready = FALSE]
        g == Greeting(o, s1, session_created)
    IN  IF g.bound
        THEN [raised |-> FALSE,
              sess |-> [s1 EXCEPT !.last_question = g.text, !.n_questions = 0],
              ai_text |-> g.text]
        ELSE [raised |-> TRUE, sess |-> s1, ai_text |-> NoneText]

\* The body of the transaction of interview_session_create, on the rows it got or created.
CreateRun(o, session0, session_created) ==
    LET s1 == [session0 EXCEPT !.ready = FALSE]
        g == Greeting(o, s1, session_created)
    IN  IF g.bound
        THEN [raised |-> FALSE, sess |-> [s1 EXCEPT !.last_question = g.text],
              ai_text |-> g.text]
        ELSE [raised |-> TRUE, sess |-> s1, ai_text |-> NoneText]

\* Atomic without the transaction: every save is committed as it is made.
AtomicNoRollback(raised, before, after) == after

\* transaction.atomic(): an exception leaving the block rolls every write back.
Atomic(raised, before, after) == IF raised THEN before ELSE after

interview_session_create(agent_id, caller) ==
    LET e == user_email(caller)
        base == [NoResp EXCEPT !.op = "create", !.agent_id = agent_id, !.email = e]
    IN  IF agent_id \notin Orders
        THEN /\ resp' = [base EXCEPT !.status = 404, !.detail = "Order not found"]
             /\ UNCHANGED <<applicants, sessions, inflight>>
        ELSE IF EmailMissing(caller)
        THEN /\ resp' = [base EXCEPT !.status = 403, !.detail = "Email is missing"]
             /\ UNCHANGED <<applicants, sessions, inflight>>
        ELSE
            LET applicant == IF applicants[e].exists THEN applicants[e] ELSE NewApplicant
                session_created == ~sessions[<<agent_id, e>>].exists
                session0 == IF session_created THEN NewSession ELSE sessions[<<agent_id, e>>]
                run == CreateRun(agent_id, session0, session_created)
                how == IF session_created THEN "new" ELSE "existing"
            IN  /\ applicants' =
                       [applicants EXCEPT ![e] = Atomic(run.raised, @, applicant)]
                /\ sessions' =
                       [sessions EXCEPT ![<<agent_id, e>>] = Atomic(run.raised, @, run.sess)]
                /\ resp' =
                       IF run.raised
                       THEN [base EXCEPT !.status = 500, !.detail = "UnboundLocalError",
                                         !.created = how]
                       ELSE [base EXCEPT !.status = 200, !.created = how,
                                         !.ai_text = run.ai_text,
                                         !.final = run.sess.final,
                                         !.score = run.sess.score,
                                         !.confidence = run.sess.confidence]
                /\ UNCHANGED inflight

----------------------------------------------------------------------------
(* The language model and the Interview Engine, as the flow view sees them *)

\* Score values the engine may store, in tenths of a percent (40.5 and 72.5).
Scores == {<<405>>, <<725>>}
Confidences == {<<9>>}

\* What llm.invoke returns or raises: a message object carrying its text in
\* `content`, or (the fallback the view allows for) in `message`.
LLMError == [raised |-> TRUE, obj |-> [content |-> NoneText]]
Says(t) == [raised |-> FALSE, obj |-> [content |-> t]]
SaysInMessage(t) == [raised |-> FALSE, obj |-> [message |-> t]]

ClassifierReplies ==
    {LLMError, Says(<<"0">>), Says(<<"1">>), Says(<<"1, skills are mentioned">>),
     SaysInMessage(<<"0">>)}
GeneratorReplies == {LLMError, Says(<<"generated text">>), Says(EmptyText)}
SecondGeneratorReplies == {LLMError, Says(<<"generated readiness prompt">>)}

\* hasattr(response, 'content') / hasattr(response, 'message') / the response itself.
Extract(response) ==
    IF "content" \in DOMAIN response THEN response.content
    ELSE IF "message" \in DOMAIN response THEN response.message
    ELSE response

\* What one ai_interviewer call does: raise, ask the next question, or conclude.
EngineError ==
    [raised |-> TRUE, final |-> FALSE, score |-> NoneNum, confidence |-> NoneNum,
     ai_text |-> NoneText]
EngineAsks ==
    [raised |-> FALSE, final |-> FALSE, score |-> NoneNum, confidence |-> NoneNum,
     ai_text |-> <<"next question">>]
EngineConcludes(sc, cf) ==
    [raised |-> FALSE, final |-> TRUE, score |-> sc, confidence |-> cf,
     ai_text |-> <<"verdict">>]
EngineReplies ==
    {EngineError, EngineAsks}
        \cup {EngineConcludes(sc, cf) : sc \in Scores, cf \in Confidences}

\* ai_interviewer(text, session): the session as the engine leaves (and saves) it.
ai_interviewer(session, out) ==
    IF out.final
    THEN [session EXCEPT !.n_questions = @ + 1, !.final = TRUE,
                         !.score = out.score, !.confidence = out.confidence]
    ELSE [session EXCEPT !.n_questions = @ + 1]

----------------------------------------------------------------------------
(* interview_session_flow *)

SkillsPrompt ==
    <<"We started a interview process with you, can you tell me your skills, please?">>

\* IntPart that rounds to the nearest integer, as round() would.
IntPartRounded(score) == (score[1] + 5) \div 10

\* int(session.score)
IntPart(score) == score[1] \div 10

ClosingMessage(score) ==
    <<"Thanks for your time, we finished with the interview! Your score is ",
      ToString(IntPart(score)), " percents. Have a good day.">>

\* What the transaction body leaves behind: the in-memory rows, which of them were
\* saved, and what the body did.
Ran(raised, sess, app, sessSaved, appSaved, stage, cls, branch, engine, summary, ai_text) ==
    [raised |-> raised, sess |-> sess, app |-> app, sessSaved |-> sessSaved,
     appSaved |-> appSaved, stage |-> stage, cls |-> cls, branch |-> branch,
     engine |-> engine, summary |-> summary, ai_text |-> ai_text,
     handed |-> NoSession, prompt |-> NoneText]

\* The run, with the session object that was passed to ai_interviewer.
Handed(run, session) == [run EXCEPT !.handed = session]

\* The run, with the value formatted into the prompt of its generation.
Prompted(run, value) == [run EXCEPT !.prompt = value]

\* Dispatch without the fourth branch: a begun interview goes on with the engine
\* whether or not the session is ready.
DispatchResumes(session) ==
    IF session.n_questions = 0 /\ ~Truthy(session.last_question) THEN 1
    ELSE IF session.n_questions = 0 /\ ~Truthy(session.last_answer) THEN 2
    ELSE IF session.n_questions = 0 /\ Truthy(session.last_answer) /\ ~session.ready THEN 3
    ELSE 5

\* Dispatch that asks for readiness without waiting for the skills answer.
DispatchReadinessFirst(session) ==
    IF session.n_questions = 0 /\ ~Truthy(session.last_question) THEN 1
    ELSE IF session.n_questions = 0 /\ ~session.ready THEN 3
    ELSE IF session.n_questions # 0 /\ session.ready = FALSE THEN 4
    ELSE 5

\* Dispatch with `is None` tests in place of truthiness.
DispatchIsNone(session) ==
    IF session.n_questions = 0 /\ session.last_question = NoneText THEN 1
    ELSE IF session.n_questions = 0 /\ session.last_answer = NoneText THEN 2
    ELSE IF session.n_questions = 0 /\ session.last_answer # NoneText /\ ~session.ready
    THEN 3
    ELSE IF session.n_questions # 0 /\ session.ready = FALSE THEN 4
    ELSE 5

\* The if/elif chain of the view: the branch taken on the session as read.
Dispatch(session) ==
    IF session.n_questions = 0 /\ ~Truthy(session.last_question) THEN 1
    ELSE IF session.n_questions = 0 /\ ~Truthy(session.last_answer) THEN 2
    ELSE IF session.n_questions = 0 /\ Truthy(session.last_answer) /\ ~session.ready THEN 3
    ELSE IF session.n_questions # 0 /\ session.ready = FALSE THEN 4
    ELSE 5

\* Each branch below is the set of ways its code can run, one for every outcome
\* of the external calls it makes (the model's replies and the engine's).

\* AskSkills that records the prompt it returns as the session's last question.
AskSkillsStoresPrompt(session, applicant) ==
    LET s1 == [session EXCEPT !.ready = FALSE, !.last_question = SkillsPrompt]
    IN  {Ran(FALSE, s1, applicant, TRUE, FALSE, 1, NoneText, "-", 0, NoneText, SkillsPrompt)}

AskSkills(session, applicant) ==
    LET s1 == [session EXCEPT !.ready = FALSE]
    IN  {Ran(FALSE, s1, applicant, TRUE, FALSE, 1, NoneText, "-", 0, NoneText, SkillsPrompt)}

\* SkillsMissing as a test for anything but "1".
SkillsMissingUnlessOne(skills_provided) == skills_provided # <<"1">>

\* skills_provided == "0"
SkillsMissing(skills_provided) == skills_provided = <<"0">>

\* The "0" branch of the skills stage: a polite re-ask.
AskSkillsAgain(s1, applicant, skills_provided) ==
    {IF g.raised
     THEN Ran(TRUE, s1, applicant, TRUE, FALSE, 2, skills_provided, "no", 0, NoneText, NoneText)
     ELSE Ran(FALSE, s1, applicant, TRUE, FALSE, 2, skills_provided, "no", 0, NoneText, Extract(g.obj)) :
        g \in GeneratorReplies}

\* NoteSkills without applicant.save(): the summary reaches the session only.
NoteSkillsOnSessionOnly(s1, applicant, skills_provided) ==
    UNION {IF g.raised
           THEN {Ran(TRUE, s1, applicant, TRUE, FALSE, 2, skills_provided, "yes", 0,
                     NoneText, NoneText)}
           ELSE LET short_description == Extract(g.obj)
                    a1 == [applicant EXCEPT !.skills = short_description]
                    s2 == [s1 EXCEPT !.last_answer = short_description]
                IN  {IF g2.raised
                     THEN Ran(TRUE, s2, a1, TRUE, FALSE, 2, skills_provided, "yes", 0,
                              short_description, NoneText)
                     ELSE Ran(FALSE, s2, a1, TRUE, FALSE, 2, skills_provided, "yes", 0,
                              short_description, Extract(g2.obj)) :
                        g2 \in SecondGeneratorReplies} :
              g \in GeneratorReplies}

\* The else branch of the skills stage: store the summary, ask for readiness.
NoteSkills(s1, applicant, skills_provided) ==
    UNION {IF g.raised
           THEN {Ran(TRUE, s1, applicant, TRUE, FALSE, 2, skills_provided, "yes", 0, NoneText, NoneText)}
           ELSE LET short_description == Extract(g.obj)
                    a1 == [applicant EXCEPT !.skills = short_description]
                    s2 == [s1 EXCEPT !.last_answer = short_description]
                IN  {IF g2.raised
                     THEN Ran(TRUE, s2, a1, TRUE, TRUE, 2, skills_provided, "yes", 0,
                              short_description, NoneText)
                     ELSE Ran(FALSE, s2, a1, TRUE, TRUE, 2, skills_provided, "yes", 0,
                              short_description, Extract(g2.obj)) :
                        g2 \in SecondGeneratorReplies} :
              g \in GeneratorReplies}

ClassifySkills(session, applicant) ==
    LET s1 == [session EXCEPT !.ready = FALSE]
    IN  UNION {IF c.raised
               THEN {Ran(TRUE, s1, applicant, TRUE, FALSE, 2, NoneText, "-", 0, NoneText, NoneText)}
               ELSE IF SkillsMissing(Extract(c.obj))
               THEN AskSkillsAgain(s1, applicant, Extract(c.obj))
               ELSE NoteSkills(s1, applicant, Extract(c.obj)) :
                  c \in ClassifierReplies}

\* is_ready == "0"
NotReady(is_ready) == is_ready = <<"0">>

\* The "0" branch of the readiness stage: a waiting message.
WaitForReady(session, applicant, is_ready) ==
    {IF g.raised
     THEN Ran(TRUE, session, applicant, FALSE, FALSE, 3, is_ready, "no", 0, NoneText, NoneText)
     ELSE Ran(FALSE, session, applicant, FALSE, FALSE, 3, is_ready, "no", 0, NoneText,
              Extract(g.obj)) :
        g \in GeneratorReplies}

\* BeginInterview with the engine called before ready is set.
BeginInterviewEngineFirst(session, applicant, is_ready) ==
    {Handed(IF en.raised
            THEN Ran(TRUE, session, applicant, FALSE, FALSE, 3, is_ready, "yes", 1,
                     NoneText, NoneText)
            ELSE Ran(FALSE, [ai_interviewer(session, en) EXCEPT !.ready = TRUE],
                     applicant, TRUE, FALSE, 3, is_ready, "yes", 1, NoneText,
                     en.ai_text),
            session) :
        en \in EngineReplies}

\* The else branch of the readiness stage: ready = True, then the engine.
BeginInterview(session, applicant, is_ready) ==
    LET s1 == [session EXCEPT !.ready = TRUE]
    IN  {Handed(IF en.raised
                THEN Ran(TRUE, s1, applicant, TRUE, FALSE, 3, is_ready, "yes", 1,
                         NoneText, NoneText)
                ELSE Ran(FALSE, ai_interviewer(s1, en), applicant, TRUE, FALSE,
                         3, is_ready, "yes", 1, NoneText, en.ai_text),
                s1) :
            en \in EngineReplies}

ClassifyReadiness(session, applicant) ==
    UNION {IF c.raised
           THEN {Ran(TRUE, session, applicant, FALSE, FALSE, 3, NoneText, "-", 0, NoneText, NoneText)}
           ELSE IF NotReady(Extract(c.obj))
           THEN WaitForReady(session, applicant, Extract(c.obj))
           ELSE BeginInterview(session, applicant, Extract(c.obj)) :
              c \in ClassifierReplies}

\* AskToContinue that takes the call as the applicant's consent and sets ready.
AskToContinueResumes(session, applicant) ==
    {Prompted(IF g.raised
              THEN Ran(TRUE, session, applicant, FALSE, FALSE, 4, NoneText, "-", 0,
                       NoneText, NoneText)
              ELSE Ran(FALSE, [session EXCEPT !.ready = TRUE], applicant, TRUE, FALSE,
                       4, NoneText, "-", 0, NoneText, Extract(g.obj)),
              session.last_question) :
        g \in GeneratorReplies}

AskToContinue(session, applicant) ==
    {Prompted(IF g.raised
              THEN Ran(TRUE, session, applicant, FALSE, FALSE, 4, NoneText, "-", 0,
                       NoneText, NoneText)
              ELSE Ran(FALSE, session, applicant, FALSE, FALSE, 4, NoneText, "-", 0,
                       NoneText, Extract(g.obj)),
              session.last_question) :
        g \in GeneratorReplies}

\* Interview that answers a retried call from the stored turn: the engine is
\* consulted but the question count it returns is not kept.
InterviewCountsOnce(session, applicant) ==
    {Handed(IF en.raised
            THEN Ran(TRUE, session, applicant, FALSE, FALSE, 5, NoneText, "-", 1,
                     NoneText, NoneText)
            ELSE Ran(FALSE, session, applicant, TRUE, FALSE, 5, NoneText, "-", 1,
                     NoneText, en.ai_text),
            session) :
        en \in EngineReplies}

Interview(session, applicant) ==
    {Handed(IF en.raised
            THEN Ran(TRUE, session, applicant, FALSE, FALSE, 5, NoneText, "-", 1,
                     NoneText, NoneText)
            ELSE LET s1 == ai_interviewer(session, en)
                 IN  IF ~s1.final
                     THEN Ran(FALSE, s1, applicant, TRUE, FALSE, 5, NoneText, "-", 1,
                              NoneText, en.ai_text)
                     ELSE IF s1.score = NoneNum
                     THEN Ran(TRUE, s1, applicant, TRUE, FALSE, 5, NoneText, "-", 1,
                              NoneText, NoneText)
                     ELSE Ran(FALSE, s1, applicant, TRUE, FALSE, 5, NoneText, "-", 1,
                              NoneText, ClosingMessage(s1.score)),
            session) :
        en \in EngineReplies}

\* The body of the transaction of interview_session_flow on the rows it read:
\* the ways it can run.
FlowRuns(session, applicant) ==
    LET stage == Dispatch(session)
    IN  CASE stage = 1 -> AskSkills(session, applicant)
          [] stage = 2 -> ClassifySkills(session, applicant)
          [] stage = 3 -> ClassifyReadiness(session, applicant)
          [] stage = 4 -> AskToContinue(session, applicant)
          [] OTHER -> Interview(session, applicant)

\* The row a transaction leaves in the store: its last save, unless it raised.
Committed(row, run, saved, mem) == Atomic(run.raised, row, IF saved THEN mem ELSE row)

\* The Response of the view once the transaction block is left.
FlowResponse(base, run) ==
    IF run.raised
    THEN [base EXCEPT !.status = 500, !.detail = "Exception", !.stage = run.stage,
                      !.cls = run.cls, !.branch = run.branch, !.engine = run.engine,
                      !.summary = run.summary, !.handed = run.handed,
                      !.prompt = run.prompt]
    ELSE [base EXCEPT !.status = 200, !.stage = run.stage, !.cls = run.cls,
                      !.branch = run.branch, !.engine = run.engine,
                      !.summary = run.summary,
                      !.ai_text = run.ai_text, !.final = run.sess.final,
                      !.score = run.sess.score, !.confidence = run.sess.confidence,
                      !.handed = run.handed, !.prompt = run.prompt]

interview_session_flow(agent_id, caller) ==
    LET e == user_email(caller)
        base == [NoResp EXCEPT !.op = "flow", !.agent_id = agent_id, !.email = e]
    IN  IF agent_id \notin Orders
        THEN /\ resp' = [base EXCEPT !.status = 404, !.detail = "Order not found"]
             /\ UNCHANGED <<applicants, sessions, inflight>>
        ELSE IF EmailMissing(caller)
        THEN /\ resp' = [base EXCEPT !.status = 403, !.detail = "Email is missing"]
             /\ UNCHANGED <<applicants, sessions, inflight>>
        ELSE IF ~applicants[e].exists \/ ~sessions[<<agent_id, e>>].exists
        THEN /\ resp' = [base EXCEPT !.status = 500, !.detail = "DoesNotExist"]
             /\ UNCHANGED <<applicants, sessions, inflight>>
        ELSE
            /\ sessions[<<agent_id, e>>].n_questions < MaxQuestions
            /\ \E run \in FlowRuns(sessions[<<agent_id, e>>], applicants[e]) :
                       /\ sessions' = [sessions EXCEPT ![<<agent_id, e>>] =
                                          Committed(@, run, run.sessSaved, run.sess)]
                       /\ applicants' = [applicants EXCEPT ![e] =
                                            Committed(@, run, run.appSaved, run.app)]
                       /\ resp' = FlowResponse(base, run)
            /\ UNCHANGED inflight

----------------------------------------------------------------------------
(* Two requests in flight.  Session.objects.get is a plain SELECT (no           *)
(* select_for_update), so under the read-committed store of a concurrent        *)
(* deployment a request reads the committed rows without taking a lock; its     *)
(* first save takes the row lock, which it holds until it commits.  A request   *)
(* is therefore two steps: the reads of lines 228-229, and everything from its  *)
(* first save to its commit.  interview_session_create, whose get_or_create is  *)
(* followed at once by a save, is kept as one step here.                        *)

\* Lines 218-229 of a request that finds its order, email, applicant and session.
FlowRead(w, agent_id, caller) ==
    LET e == user_email(caller)
    IN  /\ ~inflight[w].busy
        /\ agent_id \in Orders
        /\ ~EmailMissing(caller)
        /\ applicants[e].exists /\ sessions[<<agent_id, e>>].exists
        /\ sessions[<<agent_id, e>>].n_questions < MaxQuestions
        /\ inflight' = [inflight EXCEPT ![w] =
               [busy |-> TRUE, agent_id |-> agent_id, email |-> e,
                sess |-> sessions[<<agent_id, e>>], app |-> applicants[e]]]
        /\ UNCHANGED <<applicants, sessions, resp>>

\* FlowFinish with the session looked up by applicant alone: every session of
\* the applicant gets the save.
FlowFinishAcrossOrders(w) ==
    LET f == inflight[w]
        base == [NoResp EXCEPT !.op = "flow", !.agent_id = f.agent_id, !.email = f.email]
    IN  /\ f.busy
        /\ \E run \in FlowRuns(f.sess, f.app) :
               /\ sessions' = [k \in DOMAIN sessions |->
                                  IF k[2] = f.email /\ sessions[k].exists
                                  THEN Committed(sessions[k], run, run.sessSaved, run.sess)
                                  ELSE sessions[k]]
               /\ applicants' = [applicants EXCEPT ![f.email] =
                                    Committed(@, run, run.appSaved, run.app)]
               /\ resp' = FlowResponse(base, run)
        /\ inflight' = [inflight EXCEPT ![w] = Idle]

\* Lines 231-374 of that request, run on the rows it read: model.save() writes
\* every field of the in-memory object over the row.
FlowFinish(w) ==
    LET f == inflight[w]
        base == [NoResp EXCEPT !.op = "flow", !.agent_id = f.agent_id, !.email = f.email]
    IN  /\ f.busy
        /\ \E run \in FlowRuns(f.sess, f.app) :
               /\ sessions' = [sessions EXCEPT ![<<f.agent_id, f.email>>] =
                                  Committed(@, run, run.sessSaved, run.sess)]
               /\ applicants' = [applicants EXCEPT ![f.email] =
                                    Committed(@, run, run.appSaved, run.app)]
               /\ resp' = FlowResponse(base, run)
        /\ inflight' = [inflight EXCEPT ![w] = Idle]

----------------------------------------------------------------------------

Init ==
    /\ applicants = [e \in RowEmails |-> NoApplicant]
    /\ sessions = [k \in Orders \X RowEmails |-> NoSession]
    /\ resp = NoResp
    /\ inflight = [w \in Workers |-> Idle]

StartSession == \E agent_id \in AgentIds, caller \in Callers :
    interview_session_create(agent_id, caller)

AdvanceSession == \E agent_id \in AgentIds, caller \in Callers :
    interview_session_flow(agent_id, caller)

Next == StartSession \/ AdvanceSession

Spec == Init /\ [][Next]_vars

\* The concurrent specification follows the sessions of one order.
ConcAgentIds == {1}

StartConc == \E agent_id \in ConcAgentIds, caller \in Callers :
    interview_session_create(agent_id, caller)

BeginAdvance == \E w \in Workers, agent_id \in ConcAgentIds, caller \in Callers :
    FlowRead(w, agent_id, caller)

FinishAdvance == \E w \in Workers : FlowFinish(w)

NextConc == StartConc \/ BeginAdvance \/ FinishAdvance

SpecConc == Init /\ [][NextConc]_vars

\* Requests for different (order, applicant) pairs in flight together: request
\* slot w carries the AdvanceSession requests of order w, so that a request for
\* one pair is in flight while calls on the other pair start, run and commit.
OrderOf(w) == w

BeginAdvancePair == \E w \in Workers, caller \in Callers :
    /\ OrderOf(w) \in Orders
    /\ FlowRead(w, OrderOf(w), caller)

NextPairs == StartSession \/ BeginAdvancePair \/ FinishAdvance

SpecPairs == Init /\ [][NextPairs]_vars

----------------------------------------------------------------------------
(* Properties *)

\* The session and applicant rows a response is about.
SessionOf(r) == sessions[<<r.agent_id, r.email>>]
ApplicantOf(r) == applicants[r.email]

\* In a step: the rows the call of the step is about, before and after it.
SessionBefore == sessions[<<resp'.agent_id, resp'.email>>]
SessionAfter == sessions'[<<resp'.agent_id, resp'.email>>]
ApplicantBefore == applicants[resp'.email]
ApplicantAfter == applicants'[resp'.email]

\* A flow or create call that got as far as its transaction.
Resolved(r) == r.agent_id \in Orders /\ r.email \in Emails

\* C1. Two concurrent AdvanceSession calls on one session never interleave their
\* read-modify-write: no request in flight holds a session snapshot whose
\* n_questions another request's commit has since incremented.
C1_NoStaleSnapshot ==
    \A w \in Workers :
        inflight[w].busy =>
            inflight[w].sess.n_questions
                = sessions[<<inflight[w].agent_id, inflight[w].email>>].n_questions

\* The rows of the stage dispatch table, on a session as read; a text is unset
\* when it is None or empty.
Row(i, s) ==
    CASE i = 1 -> s.n_questions = 0 /\ s.last_question \in {NoneText, EmptyText}
      [] i = 2 -> s.n_questions = 0 /\ s.last_answer \in {NoneText, EmptyText}
      [] i = 3 -> s.n_questions = 0 /\ s.last_answer \notin {NoneText, EmptyText}
                      /\ ~s.ready
      [] i = 4 -> s.n_questions # 0 /\ s.ready = FALSE
      [] OTHER -> TRUE

FirstRow(s) == CHOOSE i \in 1..5 : Row(i, s) /\ \A j \in 1..(i - 1) : ~Row(j, s)

\* C2. Stage dispatch is deterministic and total: every AdvanceSession call that
\* reaches its session, however its external calls turn out, runs the handler of
\* the first row of the dispatch table whose condition holds on the session as it
\* was at the start of the call.
C2_DispatchFirstRow ==
    [][(resp'.op = "flow" /\ resp'.stage # 0) =>
          resp'.stage = FirstRow(SessionBefore)]_vars

\* A stage-2 call ran on a session whose last_answer is the empty string.
C2_Witness ==
    /\ resp.op = "flow" /\ resp.stage = 2 /\ resp.status = 200
    /\ SessionOf(resp).last_answer = EmptyText

\* A classifier output that is neither "0" nor "1".
OtherOutput(cls) == cls \notin {NoneText, <<"0">>, <<"1">>}

\* C3 as stated. A classifier output that is neither "0" nor "1" is the "no"
\* branch: stage 2 writes neither applicant.skills nor session.last_answer, and
\* stage 3 neither sets ready nor invokes the engine.
C3_OtherOutputIsNo ==
    [][(resp'.op = "flow" /\ OtherOutput(resp'.cls)) =>
          /\ resp'.stage = 2 =>
                /\ ApplicantAfter = ApplicantBefore
                /\ SessionAfter.last_answer = SessionBefore.last_answer
          /\ resp'.stage = 3 =>
                /\ resp'.engine = 0
                /\ ~SessionAfter.ready]_vars

\* C3 amended. A classifier output that is neither "0" nor "1" is handled as "1"
\* is: stage 2 generates the summary and a call that completes has written it to
\* applicant.skills and session.last_answer; stage 3 invokes the engine, and a
\* call that completes has set ready.
C3_OtherOutputIsYes ==
    [][(resp'.op = "flow" /\ OtherOutput(resp'.cls)) =>
          /\ (resp'.stage = 2 /\ resp'.status = 200) =>
                /\ resp'.summary # NoneText
                /\ ApplicantAfter.skills = resp'.summary
                /\ SessionAfter.last_answer = resp'.summary
          /\ resp'.stage = 3 =>
                /\ resp'.engine = 1
                /\ resp'.status = 200 => SessionAfter.ready]_vars

\* The readiness classifier answered something else and the interview began.
C3_Witness ==
    /\ resp.op = "flow" /\ resp.stage = 3 /\ OtherOutput(resp.cls)
    /\ resp.status = 200 /\ resp.engine = 1 /\ SessionOf(resp).ready

\* C4. Once a session is final, an AdvanceSession call on it does not invoke the
\* Interview Engine and returns the stored final, score and confidence.
C4_FinalIsIdempotent ==
    [][(resp'.op = "flow" /\ Resolved(resp') /\ SessionBefore.exists
            /\ SessionBefore.final) =>
          /\ resp'.engine = 0
          /\ resp'.status = 200 =>
                /\ resp'.final = SessionBefore.final
                /\ resp'.score = SessionBefore.score
                /\ resp'.confidence = SessionBefore.confidence]_vars

\* C5. An AdvanceSession call for an existing order whose applicant or session
\* row does not exist answers 404 (and the row still does not exist).
C5_MissingRowIsNotFound ==
    (resp.op = "flow" /\ Resolved(resp)
        /\ (~ApplicantOf(resp).exists \/ ~SessionOf(resp).exists))
        => resp.status = 404

\* C6. An AdvanceSession call in which a language-model call or the engine fails
\* inside a stage answers 500 and leaves every Session and Applicant row as it
\* was before the call.
C6_FailureRollsBack ==
    [][(resp'.op = "flow" /\ resp'.stage # 0 /\ resp'.status # 200) =>
          /\ resp'.status = 500
          /\ sessions' = sessions
          /\ applicants' = applicants]_vars

\* The readiness prompt of stage 2 failed after the summary had been written.
C6_Witness ==
    /\ resp.op = "flow" /\ resp.status = 500 /\ resp.stage = 2
    /\ Truthy(resp.summary)
    /\ SessionOf(resp).last_answer = NoneText

\* C7. StartSession on an existing session succeeds, whatever stage the session
\* is paused at, and returns one of the three re-entry templates.
C7_RestartSucceeds ==
    (resp.op = "create" /\ resp.created = "existing") =>
        /\ resp.status = 200
        /\ resp.ai_text \in {HelloAgain(resp.agent_id), StartedSession(resp.agent_id),
                             StartedInterview(resp.agent_id)}

\* C8. After a successful StartSession call the persisted session has
\* ready = False and last_question equal to the greeting of the response.
C8_StartLeavesGreeting ==
    (resp.op = "create" /\ resp.status = 200) =>
        /\ SessionOf(resp).exists
        /\ ~SessionOf(resp).ready
        /\ SessionOf(resp).last_question = resp.ai_text

\* StartSession succeeded on an existing session whose interview had begun.
C8_Witness ==
    /\ resp.op = "create" /\ resp.status = 200 /\ resp.created = "existing"
    /\ SessionOf(resp).n_questions > 0

\* C9 as stated. StartSession on a session with n_questions = 0 and last_question
\* unset, created by the call or not, leaves last_question equal to the order's
\* configured greeting and ready = False.
C9_UnsetGetsConfiguredGreeting ==
    [][(resp'.op = "create" /\ resp'.status = 200
            /\ SessionBefore.n_questions = 0 /\ ~Truthy(SessionBefore.last_question)) =>
          /\ SessionAfter.last_question = agent_greeting(resp'.agent_id)
          /\ ~SessionAfter.ready]_vars

\* C9 amended. Such a call leaves ready = False, and last_question equal to the
\* order's configured greeting when the call created the session, and to the
\* "Hello again" re-entry template when the session already existed.
C9_UnsetGetsGreetingByOrigin ==
    [][(resp'.op = "create" /\ resp'.status = 200
            /\ SessionBefore.n_questions = 0 /\ ~Truthy(SessionBefore.last_question)) =>
          /\ ~SessionAfter.ready
          /\ SessionAfter.last_question =
                 IF SessionBefore.exists
                 THEN HelloAgain(resp'.agent_id)
                 ELSE agent_greeting(resp'.agent_id)]_vars

\* StartSession found an existing session with last_question unset.
C9_Witness ==
    /\ resp.op = "create" /\ resp.status = 200 /\ resp.created = "existing"
    /\ resp.ai_text = HelloAgain(resp.agent_id)
    /\ SessionOf(resp).last_question = HelloAgain(resp.agent_id)

\* The texts the readiness-prompt generation of stage 2 can return.
ReadinessPrompts == {Extract(g.obj) : g \in SecondGeneratorReplies \ {LLMError}}

\* C10. A stage-2 call whose classifier answers "1" and which completes leaves
\* applicant.skills and session.last_answer equal to the generated summary,
\* ready = False, n_questions and final as they were, and answers with the
\* generated readiness prompt.
C10_SkillsNoted ==
    [][(resp'.op = "flow" /\ resp'.stage = 2 /\ resp'.cls = <<"1">>
            /\ resp'.status = 200) =>
          /\ ApplicantAfter.skills = resp'.summary
          /\ SessionAfter.last_answer = resp'.summary
          /\ ~SessionAfter.ready
          /\ SessionAfter.n_questions = SessionBefore.n_questions
          /\ SessionAfter.final = SessionBefore.final
          /\ resp'.final = SessionBefore.final
          /\ resp'.ai_text \in ReadinessPrompts]_vars

\* The skills stage noted a non-empty summary on a "1".
C10_Witness ==
    /\ resp.op = "flow" /\ resp.stage = 2 /\ resp.cls = <<"1">> /\ resp.status = 200
    /\ Truthy(resp.summary)
    /\ ApplicantOf(resp).skills = resp.summary
    /\ SessionOf(resp).last_answer = resp.summary

\* C11. A stage-3 call whose readiness classifier answers "1" invokes the
\* Interview Engine exactly once, hands it a session whose ready is already
\* True, and, when it completes, leaves session.ready True.
C11_ReadyThenEngine ==
    (resp.op = "flow" /\ resp.stage = 3 /\ resp.cls = <<"1">>) =>
        /\ resp.engine = 1
        /\ resp.handed.exists /\ resp.handed.ready
        /\ resp.status = 200 => SessionOf(resp).ready

\* The readiness classifier answered "1" and the first question was asked.
C11_Witness ==
    /\ resp.op = "flow" /\ resp.stage = 3 /\ resp.cls = <<"1">> /\ resp.status = 200
    /\ resp.engine = 1 /\ resp.handed.ready
    /\ SessionOf(resp).ready /\ SessionOf(resp).n_questions = 1

\* C12. StartSession by an unauthenticated caller without an email, for an
\* existing order, answers 403 "Email is missing" and creates or changes no
\* Applicant or Session row.
C12_MissingEmailRefused ==
    [][(resp'.op = "create" /\ resp'.agent_id \in Orders /\ resp'.email = "") =>
          /\ resp'.status = 403
          /\ resp'.detail = "Email is missing"
          /\ sessions' = sessions
          /\ applicants' = applicants]_vars

\* The anonymous call was refused after rows had come to exist.
C12_Witness ==
    /\ resp.op = "create" /\ resp.agent_id \in Orders /\ resp.email = ""
    /\ resp.status = 403
    /\ \E e \in Emails : applicants[e].exists
    /\ \A o \in Orders : ~sessions[<<o, "">>].exists

\* The text mentions the agent's name.
NamesAgent(text, o) == \E i \in DOMAIN text : text[i] = agent_name(o)

\* C13. StartSession on an existing session with n_questions = 0, last_question
\* set and last_answer unset succeeds with a greeting that contains the agent
\* name, and changes nothing of the session but ready and last_question.
C13_RestartKeepsProgress ==
    [][(resp'.op = "create" /\ Resolved(resp') /\ SessionBefore.exists
            /\ SessionBefore.n_questions = 0 /\ Truthy(SessionBefore.last_question)
            /\ ~Truthy(SessionBefore.last_answer)) =>
          /\ resp'.status = 200
          /\ NamesAgent(resp'.ai_text, resp'.agent_id)
          /\ SessionAfter =
                 [SessionBefore EXCEPT !.ready = SessionAfter.ready,
                                       !.last_question = SessionAfter.last_question]]_vars

\* A repeated StartSession found the session waiting for the skills answer.
C13_Witness ==
    /\ resp.op = "create" /\ resp.status = 200 /\ resp.created = "existing"
    /\ resp.ai_text = StartedSession(resp.agent_id)
    /\ SessionOf(resp).n_questions = 0 /\ ~Truthy(SessionOf(resp).last_answer)

\* In a step: the session of pair k changes as a StartSession call on k changes
\* it, given nothing but k's own row.
StartExplains(k) ==
    LET created == ~sessions[k].exists
        run == CreateRun(k[1], IF created THEN NewSession ELSE sessions[k], created)
    IN  /\ resp'.op = "create" /\ resp'.status = 200
        /\ ~run.raised
        /\ sessions'[k] = run.sess
        /\ resp'.ai_text = run.ai_text

\* In a step: the session of pair k changes as the commit of an AdvanceSession
\* request on k changes it, given nothing but the rows that request read.
AdvanceExplains(k) ==
    \E w \in Workers :
        /\ inflight[w].busy /\ ~inflight'[w].busy
        /\ <<inflight[w].agent_id, inflight[w].email>> = k
        /\ \E run \in FlowRuns(inflight[w].sess, inflight[w].app) :
               /\ ~run.raised /\ run.sessSaved
               /\ sessions'[k] = run.sess
               /\ resp' = FlowResponse(
                      [NoResp EXCEPT !.op = "flow", !.agent_id = k[1], !.email = k[2]],
                      run)

\* C14. Sessions of different (order, applicant) pairs are independent under
\* every interleaving: a step changes the Session row of a pair only if it is a
\* StartSession or AdvanceSession call on that pair, and then the new row and
\* the response are an outcome of that call on the pair's own rows.
C14_PairsIndependent ==
    [][\A k \in DOMAIN sessions :
          sessions'[k] # sessions[k] =>
              /\ <<resp'.agent_id, resp'.email>> = k
              /\ StartExplains(k) \/ AdvanceExplains(k)]_vars

\* A call on order 2 committed while a request on order 1 was in flight, and both
\* sessions have moved on.
C14_Witness ==
    /\ resp.agent_id = 2 /\ resp.status = 200
    /\ \E w \in Workers : inflight[w].busy /\ inflight[w].agent_id = 1
    /\ \E e \in Emails :
           /\ sessions[<<1, e>>].exists /\ Truthy(sessions[<<1, e>>].last_answer)
           /\ sessions[<<2, e>>].exists /\ sessions[<<2, e>>].n_questions > 0

\* The texts a generation call can return.
GeneratedTexts == {Extract(g.obj) : g \in GeneratorReplies \ {LLMError}}

\* C15. A stage-4 call (n_questions # 0, ready = False) classifies nothing, does
\* not invoke the engine, leaves every Session and Applicant field as it was,
\* and answers with a message generated from a prompt filled with
\* last_question.
C15_AskToContinueOnly ==
    [][(resp'.op = "flow" /\ resp'.stage = 4) =>
          /\ SessionBefore.n_questions # 0 /\ ~SessionBefore.ready
          /\ resp'.cls = NoneText
          /\ resp'.engine = 0
          /\ resp'.prompt = SessionBefore.last_question
          /\ sessions' = sessions
          /\ applicants' = applicants
          /\ resp'.status = 200 => resp'.ai_text \in GeneratedTexts]_vars

\* A stage-4 call answered, asked from the re-entry greeting StartSession left.
C15_Witness ==
    /\ resp.op = "flow" /\ resp.stage = 4 /\ resp.status = 200
    /\ resp.prompt = StartedInterview(resp.agent_id)
    /\ SessionOf(resp).n_questions # 0 /\ ~SessionOf(resp).ready

\* The whole percents of a score kept in tenths: the n with n <= score < n + 1.
WholePercents(score) ==
    CHOOSE n \in 0..100 : 10 * n <= score[1] /\ score[1] < 10 * (n + 1)

\* C16. A stage-5 call invokes the Interview Engine exactly once; when it
\* completes, its ai_text is the closing message with the integer part of
\* session.score if the session is final after the engine call, and the text the
\* engine returned otherwise, and its final, score and confidence are the
\* session's after the engine call.
C16_InterviewTurn ==
    [][(resp'.op = "flow" /\ resp'.stage = 5) =>
          /\ resp'.engine = 1
          /\ resp'.status = 200 =>
                /\ SessionAfter.final =>
                       resp'.ai_text =
                           <<"Thanks for your time, we finished with the interview! Your score is ",
                             ToString(WholePercents(SessionAfter.score)),
                             " percents. Have a good day.">>
                /\ ~SessionAfter.final => resp'.ai_text = EngineAsks.ai_text
                /\ resp'.final = SessionAfter.final
                /\ resp'.score = SessionAfter.score
                /\ resp'.confidence = SessionAfter.confidence]_vars

\* A stage-5 call concluded the interview with a score of 72.5.
C16_Witness ==
    /\ resp.op = "flow" /\ resp.stage = 5 /\ resp.status = 200
    /\ ~resp.handed.final /\ resp.final /\ resp.score = <<725>>
    /\ SessionOf(resp).final

\* C17. AdvanceSession is not idempotent: a completed stage-5 call on a non-final
\* session invokes the Interview Engine and leaves n_questions one higher, and a
\* second such call right after it on the same session invokes the engine again
\* and leaves n_questions two higher than before the first.
C17_ReplayAdvancesAgain ==
    [][(/\ resp'.op = "flow" /\ resp'.stage = 5 /\ resp'.status = 200
        /\ ~SessionBefore.final) =>
          /\ resp'.engine = 1
          /\ resp'.handed = SessionBefore
          /\ SessionAfter.n_questions = SessionBefore.n_questions + 1
          /\ (/\ resp.op = "flow" /\ resp.stage = 5 /\ resp.status = 200
              /\ resp.agent_id = resp'.agent_id /\ resp.email = resp'.email) =>
                 SessionAfter.n_questions = resp.handed.n_questions + 2]_vars

\* Two completed stage-5 calls in a row on a session that is still not final.
C17_Witness ==
    /\ resp.op = "flow" /\ resp.stage = 5 /\ resp.status = 200 /\ resp.engine = 1
    /\ resp.handed.n_questions = 2 /\ resp.handed.ready /\ ~resp.handed.final
    /\ SessionOf(resp).n_questions = 3 /\ ~SessionOf(resp).final

\* The session of key k is in the fourth row: its interview has begun and it is
\* not ready.
Paused(k) ==
    /\ sessions[k].exists
    /\ sessions[k].n_questions # 0
    /\ sessions[k].ready = FALSE

\* C18. Stage 4 is absorbing: once a session has n_questions # 0 and ready False,
\* no StartSession or AdvanceSession call sets ready, invokes the Interview
\* Engine on it, or changes its n_questions, final, score or confidence.
C18_PausedForever ==
    [][\A k \in DOMAIN sessions :
          Paused(k) =>
             /\ sessions'[k].exists
             /\ sessions'[k].ready = FALSE
             /\ sessions'[k].n_questions = sessions[k].n_questions
             /\ sessions'[k].final = sessions[k].final
             /\ sessions'[k].score = sessions[k].score
             /\ sessions'[k].confidence = sessions[k].confidence
             /\ (resp'.agent_id = k[1] /\ resp'.email = k[2]) => resp'.engine = 0]_vars

\* An interview two questions in, not final, was restarted and then advanced:
\* the call was served by the fourth branch and the session is still paused.
C18_Witness ==
    /\ resp.op = "flow" /\ resp.stage = 4 /\ resp.status = 200
    /\ Paused(<<resp.agent_id, resp.email>>)
    /\ SessionOf(resp).n_questions = 2 /\ ~SessionOf(resp).final
    /\ SessionOf(resp).last_question = StartedInterview(resp.agent_id)

\* The session of key k has no question asked and no last question stored.
AwaitingGreeting(k, ss) == ss[k].exists /\ Row(1, ss[k])

\* C19. Stage 1 is a fixpoint of AdvanceSession: a stage-1 call returns the fixed
\* skills prompt without classifying anything or invoking the engine, writes only
\* ready = False and leaves the session in stage 1; a session leaves stage 1 only
\* in a StartSession call on it, which moves it to stage 2.
C19_StageOneFixpoint ==
    [][/\ (resp'.op = "flow" /\ resp'.stage = 1) =>
             /\ resp'.status = 200
             /\ resp'.ai_text = SkillsPrompt
             /\ resp'.cls = NoneText /\ resp'.summary = NoneText
             /\ resp'.engine = 0
             /\ SessionAfter = [SessionBefore EXCEPT !.ready = FALSE]
             /\ applicants' = applicants
             /\ FirstRow(SessionAfter) = 1
       /\ \A k \in DOMAIN sessions :
             (AwaitingGreeting(k, sessions) /\ ~AwaitingGreeting(k, sessions')) =>
                 /\ resp'.op = "create" /\ resp'.status = 200
                 /\ resp'.agent_id = k[1] /\ resp'.email = k[2]
                 /\ FirstRow(sessions'[k]) = 2]_vars

\* A stage-1 call answered a session whose stored greeting is empty, and the
\* session is still without a last question.
C19_Witness ==
    /\ resp.op = "flow" /\ resp.stage = 1 /\ resp.status = 200
    /\ resp.ai_text = SkillsPrompt
    /\ AwaitingGreeting(<<resp.agent_id, resp.email>>, sessions)
    /\ ~SessionOf(resp).ready /\ SessionOf(resp).last_question = EmptyText

\* C20. The Interview Engine is invoked only on a session that, at that moment,
\* has ready True and a stored skills summary in last_answer; and every stored
\* session with ready True has last_answer set and n_questions >= 1.
C20_EngineOnlyWhenReady ==
    /\ (resp.op = "flow" /\ resp.engine # 0) =>
          /\ resp.handed.exists
          /\ resp.handed.ready
          /\ Truthy(resp.handed.last_answer)
    /\ \A k \in DOMAIN sessions :
          (sessions[k].exists /\ sessions[k].ready) =>
              /\ Truthy(sessions[k].last_answer)
              /\ sessions[k].n_questions >= 1

\* The engine concluded an interview on its second turn: it was handed a ready
\* session with a skills summary, and the stored session is ready.
C20_Witness ==
    /\ resp.op = "flow" /\ resp.stage = 5 /\ resp.engine = 1 /\ resp.status = 200
    /\ resp.handed.ready /\ Truthy(resp.handed.last_answer)
    /\ resp.handed.n_questions = 1
    /\ SessionOf(resp).ready /\ SessionOf(resp).final

\* The fields of a session that record the progress and result of its interview.
Progress(s) == <<s.n_questions, s.final, s.score, s.confidence>>

\* C21. n_questions, final, score and confidence of a stored session change only
\* in a step in which the Interview Engine was invoked on that session (the
\* "yes" branch of stage 3, or stage 5): StartSession and the stage 1, stage 2,
\* stage 3 "no" and stage 4 handlers leave all four as they were.
C21_ProgressOnlyByEngine ==
    [][/\ \A k \in DOMAIN sessions :
             (sessions[k].exists /\ Progress(sessions'[k]) # Progress(sessions[k])) =>
                 /\ resp'.op = "flow" /\ resp'.status = 200
                 /\ resp'.agent_id = k[1] /\ resp'.email = k[2]
                 /\ resp'.engine = 1
                 /\ \/ resp'.stage = 3 /\ resp'.branch = "yes"
                    \/ resp'.stage = 5
       /\ \A k \in DOMAIN sessions :
             (~sessions[k].exists /\ sessions'[k].exists) =>
                 Progress(sessions'[k]) = Progress(NewSession)
       /\ (resp'.op = "create" \/ (resp'.op = "flow" /\ resp'.engine = 0)) =>
             \A k \in DOMAIN sessions :
                 sessions[k].exists => Progress(sessions'[k]) = Progress(sessions[k])]_vars

\* StartSession was served on a concluded interview, and the session still
\* carries its question count, its verdict, its score and its confidence.
C21_Witness ==
    /\ resp.op = "create" /\ resp.status = 200
    /\ SessionOf(resp).exists /\ ~SessionOf(resp).ready
    /\ SessionOf(resp).n_questions = 2 /\ SessionOf(resp).final
    /\ SessionOf(resp).score = <<405>> /\ SessionOf(resp).confidence = <<9>>

====
